---- MODULE Spec2Model ----
(***************************************************************************)
(* Concentrated-liquidity swap core of x/concentrated-liquidity/swaps.go.  *)
(*                                                                         *)
(* Decimals (sdk.Dec) are fixed-point integers counted in units of         *)
(* 1/Precision; token amounts (sdk.Int) are plain integers.  The tick      *)
(* grid is scaled down (a coarse logarithmic base and a short tick range)  *)
(* so that every price, amount and product stays inside TLC's integers.    *)
(***************************************************************************)
EXTENDS Integers, Sequences, FiniteSets, TLC

\* ------------------------------------------------------------------ bounds
\* Number of state-changing calls followed by a further call.
MaxSwaps == 1
\* Largest token amount a caller supplies.
MaxAmount == 2
\* Largest decimal (in units of 1/Precision) whose root and tick are tabled.
MaxDec == 10000

\* --------------------------------------------------------- sdk.Dec model
\* One whole unit of an sdk.Dec (10^18 in the SDK, 10^2 here).
Precision == 100

Abs(x) == IF x < 0 THEN -x ELSE x

\* sdk.Dec chopPrecisionAndRound: divide by d > 0, rounding half to even.
RoundHalfEven(n, d) ==
    LET a == Abs(n)
        q == a \div d
        r == a % d
        m == IF 2 * r < d THEN q
             ELSE IF 2 * r > d THEN q + 1
             ELSE IF q % 2 = 0 THEN q ELSE q + 1
    IN  IF n < 0 THEN -m ELSE m

ToDec(i) == i * Precision
DecMul(a, b) == RoundHalfEven(a * b, Precision)
DecQuo(a, b) == RoundHalfEven(a * Precision, b)
\* sdk.Dec.RoundInt: banker's rounding to an integer.
RoundInt(a) == RoundHalfEven(a, Precision)
\* sdk.Dec.TruncateInt: towards zero.
TruncateInt(a) == IF a < 0 THEN -((-a) \div Precision) ELSE a \div Precision
\* sdk.Dec.Power(2)
DecSquare(a) == DecMul(a, a)

\* Largest s in lo..hi with s * s <= n, by bisection.
RECURSIVE ISqrtBetween(_, _, _)
ISqrtBetween(n, lo, hi) ==
    IF lo >= hi THEN lo
    ELSE LET mid == (lo + hi + 1) \div 2
         IN  IF mid * mid <= n THEN ISqrtBetween(n, mid, hi)
             ELSE ISqrtBetween(n, lo, mid - 1)
\* The root of a decimal a >= 0, cut to Precision.
RootOf(a) == ISqrtBetween(a * Precision, 0, a + Precision)
\* The roots of the decimals 0..MaxDec, computed once.
RootTable == [a \in 0..MaxDec |-> RootOf(a)]
\* sdk.Dec.ApproxSqrt on a non-negative decimal.
ApproxSqrt(a) == IF a <= MaxDec THEN RootTable[a] ELSE RootOf(a)

\* ------------------------------------------------------ PriceTick codec
\* Protocol tick range (types.MinTick, types.MaxTick), scaled down.
MinTick == -2
MaxTick == 5
\* Price ratio between two consecutive ticks (1.0001 in the protocol),
\* as the fraction TickBaseNum / TickBaseDen.
TickBaseNum == 9
TickBaseDen == 4

RECURSIVE IntPow(_, _)
IntPow(b, n) == IF n = 0 THEN 1 ELSE b * IntPow(b, n - 1)

\* sdk.Dec.Power: repeated multiplication, each product rounded.
RECURSIVE DecPower(_, _)
DecPower(b, n) == IF n = 0 THEN Precision ELSE DecMul(b, DecPower(b, n - 1))

TickBase == DecQuo(ToDec(TickBaseNum), ToDec(TickBaseDen))

\* Price at a tick boundary, as a decimal.
TickPrice(t) ==
    IF t >= 0 THEN DecPower(TickBase, t)
    ELSE DecQuo(Precision, DecPower(TickBase, -t))

TickInBounds(t) == t >= MinTick /\ t <= MaxTick

\* sqrt(base^tick) for every tick of the range, computed once.
SqrtPriceAtTick == [t \in MinTick..MaxTick |-> ApproxSqrt(TickPrice(t))]

\* types.TickToSqrtPrice: sqrt(base^tick); callers test TickInBounds first.
TickToSqrtPrice(t) == SqrtPriceAtTick[t]

\* The powers of the base's numerator and denominator, computed once.
NumPow == [n \in 0..(MaxTick + 1) |-> IntPow(TickBaseNum, n)]
DenPow == [n \in 0..(MaxTick + 1) |-> IntPow(TickBaseDen, n)]

\* base^t <= price, decided exactly on the fractions.
TickAtOrBelow(t, price) ==
    IF t >= 0
    THEN NumPow[t] * Precision <= price * DenPow[t]
    ELSE DenPow[-t] * Precision <= price * NumPow[-t]

\* types.PriceToTick: floor(log_base(price)) for a positive price.
TickOf(price) ==
    LET cand == {t \in (MinTick - 2)..(MaxTick + 1) : TickAtOrBelow(t, price)}
    IN  IF cand = {} THEN MinTick - 3
        ELSE CHOOSE t \in cand : \A u \in cand : u <= t
\* The ticks of the prices 0..MaxDec, computed once.
TickTable == [price \in 0..MaxDec |-> TickOf(price)]
PriceToTick(price) == IF price <= MaxDec THEN TickTable[price] ELSE TickOf(price)

\* types.MinSqrtRatio, types.MaxSqrtRatio: the sqrt prices of the extreme ticks.
MinSqrtRatio == TickToSqrtPrice(MinTick)
MaxSqrtRatio == TickToSqrtPrice(MaxTick)

\* ------------------------------------------------- swap step calculator
\* types.CalcAmount0Delta: liquidity * (B - A) / (A * B), A <= B.
CalcAmount0Delta(liq, sqrtPriceA, sqrtPriceB) ==
    LET a == IF sqrtPriceA > sqrtPriceB THEN sqrtPriceB ELSE sqrtPriceA
        b == IF sqrtPriceA > sqrtPriceB THEN sqrtPriceA ELSE sqrtPriceB
    IN  IF a = b THEN 0 ELSE DecQuo(DecMul(liq, b - a), DecMul(a, b))

\* types.CalcAmount1Delta: liquidity * (B - A), A <= B.
CalcAmount1Delta(liq, sqrtPriceA, sqrtPriceB) ==
    DecMul(liq, Abs(sqrtPriceB - sqrtPriceA))

\* types.GetNextSqrtPriceFromInput.
GetNextSqrtPriceFromInput(sqrtPriceCurrent, liquidity, amountRemaining, zeroForOne) ==
    IF zeroForOne
    THEN DecQuo(DecMul(liquidity, sqrtPriceCurrent),
                liquidity + DecMul(amountRemaining, sqrtPriceCurrent))
    ELSE sqrtPriceCurrent + DecQuo(amountRemaining, liquidity)

\* The amounts of a step that ends at sqrtPriceNext.
SwapStepAmounts(sqrtPriceCurrent, sqrtPriceNext, liquidity, zeroForOne) ==
    [sqrtPrice |-> sqrtPriceNext,
     amountIn  |-> IF zeroForOne
                   THEN CalcAmount0Delta(liquidity, sqrtPriceNext, sqrtPriceCurrent)
                   ELSE CalcAmount1Delta(liquidity, sqrtPriceNext, sqrtPriceCurrent),
     amountOut |-> IF zeroForOne
                   THEN CalcAmount1Delta(liquidity, sqrtPriceNext, sqrtPriceCurrent)
                   ELSE CalcAmount0Delta(liquidity, sqrtPriceNext, sqrtPriceCurrent)]

\* types.ComputeSwapStep: one constant-liquidity segment.  (A value is bound
\* through a one-element set wherever it is used more than once, so that it
\* is computed once.)
ComputeSwapStep(sqrtPriceCurrent, sqrtPriceTarget, liquidity, amountRemaining, zeroForOne) ==
    CHOOSE r \in
        {SwapStepAmounts(sqrtPriceCurrent, sqrtPriceNext, liquidity, zeroForOne) :
            sqrtPriceNext \in
                {IF amountRemaining >=
                        (IF zeroForOne
                         THEN CalcAmount0Delta(liquidity, sqrtPriceTarget, sqrtPriceCurrent)
                         ELSE CalcAmount1Delta(liquidity, sqrtPriceTarget, sqrtPriceCurrent))
                 THEN sqrtPriceTarget
                 ELSE GetNextSqrtPriceFromInput(sqrtPriceCurrent, liquidity,
                                                amountRemaining, zeroForOne)}} : TRUE

\* ----------------------------------------------------------- the state
VARIABLES
    pool,       \* stored pool 1: [tick, liquidity, sqrtPrice]
    ticks,      \* tick index of pool 1: tick -> net liquidity delta (0: not initialized)
    positions,  \* the liquidity positions the ticks were built from
    bank,       \* bank[account][denom]: balances of "trader" and "pool"
    poolFee,    \* the swap fee callers pass for pool 1, as a decimal
    nSwaps,     \* state-changing calls made so far
    last        \* the last keeper call: its arguments, outcome and loop trace

vars == <<pool, ticks, positions, bank, poolFee, nSwaps, last>>

Asset0 == "eth"
Asset1 == "usdc"
Denoms == {Asset0, Asset1, "foo"}
TheOnePool == 1

\* ------------------------------------------------------------ tick index
Initialized(tk, t) == TickInBounds(t) /\ tk[t] # 0

\* Keeper.NextInitializedTick: the nearest initialized tick strictly past
\* fromTick, towards lower ticks when zeroForOne, towards higher otherwise.
NextInitializedTick(tk, fromTick, zeroForOne) ==
    LET past == {t \in MinTick..MaxTick :
                    /\ Initialized(tk, t)
                    /\ IF zeroForOne THEN t < fromTick ELSE t > fromTick}
    IN  IF past = {} THEN [ok |-> FALSE, tick |-> 0]
        ELSE [ok |-> TRUE,
              tick |-> IF zeroForOne
                       THEN CHOOSE t \in past : \A u \in past : u <= t
                       ELSE CHOOSE t \in past : \A u \in past : t <= u]

\* Keeper.CrossTick: the net liquidity delta stored at the tick.
CrossTick(tk, t) == tk[t]

\* types.AddLiquidity
AddLiquidity(liquidityA, liquidityB) == liquidityA + liquidityB

\* ------------------------------------------------- exact-in orchestrator
\* The loop's stopping tolerance (0.0000001 in the protocol's units).
Epsilon == 5
\* Loop iterations after which a traversal is cut off.
MaxIter == 400

NoErr == "ok"
ErrPoolNotFound == "pool not found"
ErrSameDenom == "cannot trade same denomination in and out"
ErrPriceLimit == "invalid price limit"
ErrTokenIn == "tokenIn does not match any asset in pool"
ErrTokenOut == "tokenOutDenom does not match any asset in pool"
ErrInOutSame == "tokenIn cannot be the same as tokenOut"
ErrNoTicks == "there are no more ticks initialized to fill the swap"
ErrTickConv == "could not convert next tick to nextSqrtPrice"
ErrCalcLarger == "tokenIn calculated is larger than tokenIn provided"
ErrNotPositive == "token amount must be positive"
ErrMinAmount == "token is lesser than min amount"
ErrInsufficientFunds == "insufficient funds"
ErrInvalidCoins == "invalid coins"
\* The loop never leaves: the call does not return.
NoReturn == "no return"
\* The traversal was cut off by the model's iteration bound.
IterationCap == "iteration cap"

\* The loop condition as it would be with a tolerance of one whole unit.
CalcOutLoopCondWholeUnit(st, sqrtPriceLimit) ==
    st.amountSpecifiedRemaining > Precision /\ st.sqrtPrice # sqrtPriceLimit

\* The loop condition of CalcOutAmtGivenIn.
CalcOutLoopCond(st, sqrtPriceLimit) ==
    st.amountSpecifiedRemaining > Epsilon /\ st.sqrtPrice # sqrtPriceLimit

\* The swap state after an iteration as it would be if crossing a tick
\* dropped the output accumulated so far.
StateAfterStepDroppingOutput(tk, st, zeroForOne, nextTick, nextSqrtPrice, step) ==
    [amountSpecifiedRemaining |-> st.amountSpecifiedRemaining - step.amountIn,
     amountCalculated |-> IF nextSqrtPrice = step.sqrtPrice THEN 0
                          ELSE st.amountCalculated + step.amountOut,
     sqrtPrice |-> step.sqrtPrice,
     tick |-> IF nextSqrtPrice = step.sqrtPrice
              THEN (IF zeroForOne THEN nextTick - 1 ELSE nextTick)
              ELSE IF st.sqrtPrice # step.sqrtPrice
                   THEN PriceToTick(DecSquare(step.sqrtPrice))
                   ELSE st.tick,
     liquidity |-> IF nextSqrtPrice = step.sqrtPrice
                   THEN AddLiquidity(st.liquidity,
                            IF zeroForOne THEN -CrossTick(tk, nextTick)
                            ELSE CrossTick(tk, nextTick))
                   ELSE st.liquidity]

\* The swap state after an iteration as it would be if a step that ends
\* inside a segment left the working tick where it was.
StateAfterStepKeepingTick(tk, st, zeroForOne, nextTick, nextSqrtPrice, step) ==
    [amountSpecifiedRemaining |-> st.amountSpecifiedRemaining - step.amountIn,
     amountCalculated |-> st.amountCalculated + step.amountOut,
     sqrtPrice |-> step.sqrtPrice,
     tick |-> IF nextSqrtPrice = step.sqrtPrice
              THEN (IF zeroForOne THEN nextTick - 1 ELSE nextTick)
              ELSE st.tick,
     liquidity |-> IF nextSqrtPrice = step.sqrtPrice
                   THEN AddLiquidity(st.liquidity,
                            IF zeroForOne THEN -CrossTick(tk, nextTick)
                            ELSE CrossTick(tk, nextTick))
                   ELSE st.liquidity]

\* The swap state after an iteration as it would be if crossing a tick left
\* the working liquidity as it was.
StateAfterStepKeepingLiquidity(tk, st, zeroForOne, nextTick, nextSqrtPrice, step) ==
    [amountSpecifiedRemaining |-> st.amountSpecifiedRemaining - step.amountIn,
     amountCalculated |-> st.amountCalculated + step.amountOut,
     sqrtPrice |-> step.sqrtPrice,
     tick |-> IF nextSqrtPrice = step.sqrtPrice
              THEN (IF zeroForOne THEN nextTick - 1 ELSE nextTick)
              ELSE IF st.sqrtPrice # step.sqrtPrice
                   THEN PriceToTick(DecSquare(step.sqrtPrice))
                   ELSE st.tick,
     liquidity |-> st.liquidity]

\* The swap state after an iteration as it would be if a crossing set the
\* working tick to the tick crossed in both directions.
StateAfterStepOntoCrossedTick(tk, st, zeroForOne, nextTick, nextSqrtPrice, step) ==
    [amountSpecifiedRemaining |-> st.amountSpecifiedRemaining - step.amountIn,
     amountCalculated |-> st.amountCalculated + step.amountOut,
     sqrtPrice |-> step.sqrtPrice,
     tick |-> IF nextSqrtPrice = step.sqrtPrice
              THEN nextTick
              ELSE IF st.sqrtPrice # step.sqrtPrice
                   THEN PriceToTick(DecSquare(step.sqrtPrice))
                   ELSE st.tick,
     liquidity |-> IF nextSqrtPrice = step.sqrtPrice
                   THEN AddLiquidity(st.liquidity,
                            IF zeroForOne THEN -CrossTick(tk, nextTick)
                            ELSE CrossTick(tk, nextTick))
                   ELSE st.liquidity]

\* The swap state after an iteration whose step ended as `step`.
StateAfterStep(tk, st, zeroForOne, nextTick, nextSqrtPrice, step) ==
    [amountSpecifiedRemaining |-> st.amountSpecifiedRemaining - step.amountIn,
     amountCalculated |-> st.amountCalculated + step.amountOut,
     sqrtPrice |-> step.sqrtPrice,
     tick |-> IF nextSqrtPrice = step.sqrtPrice
              THEN (IF zeroForOne THEN nextTick - 1 ELSE nextTick)
              ELSE IF st.sqrtPrice # step.sqrtPrice
                   THEN PriceToTick(DecSquare(step.sqrtPrice))
                   ELSE st.tick,
     liquidity |-> IF nextSqrtPrice = step.sqrtPrice
                   THEN AddLiquidity(st.liquidity,
                            IF zeroForOne THEN -CrossTick(tk, nextTick)
                            ELSE CrossTick(tk, nextTick))
                   ELSE st.liquidity]

\* The step target as it would be without the clamp to the limit.
SqrtPriceTargetUnclamped(zeroForOne, nextSqrtPrice, sqrtPriceLimit) ==
    nextSqrtPrice

\* The step target: the next tick's sqrt price, or the limit if that is nearer.
SqrtPriceTarget(zeroForOne, nextSqrtPrice, sqrtPriceLimit) ==
    IF (zeroForOne /\ nextSqrtPrice < sqrtPriceLimit)
       \/ (~zeroForOne /\ nextSqrtPrice > sqrtPriceLimit)
    THEN sqrtPriceLimit ELSE nextSqrtPrice

\* One iteration of the CalcOutAmtGivenIn loop from swap state st towards the
\* initialized tick nextTick: the record of what it did and the state after.
CalcOutIteration(tk, st, zeroForOne, sqrtPriceLimit, nextTick) ==
    CHOOSE r \in
        {[before |-> st, nextTick |-> nextTick, nextSqrtPrice |-> nextSqrtPrice,
          sqrtPriceTarget |-> SqrtPriceTarget(zeroForOne, nextSqrtPrice, sqrtPriceLimit),
          amountIn |-> step.amountIn, amountOut |-> step.amountOut,
          crossed |-> (nextSqrtPrice = step.sqrtPrice),
          stored |-> CrossTick(tk, nextTick),
          after |-> StateAfterStep(tk, st, zeroForOne, nextTick, nextSqrtPrice, step)] :
            nextSqrtPrice \in {TickToSqrtPrice(nextTick)},
            step \in {ComputeSwapStep(st.sqrtPrice,
                          SqrtPriceTarget(zeroForOne, TickToSqrtPrice(nextTick),
                                          sqrtPriceLimit),
                          st.liquidity, st.amountSpecifiedRemaining, zeroForOne)}} : TRUE

RECURSIVE CalcOutLoop(_, _, _, _, _, _)
\* The loop as it would be without the no-more-ticks check: a missing next
\* tick ends the swap as if it were filled.
CalcOutLoopWithoutTickCheck(tk, st, zeroForOne, sqrtPriceLimit, trace, fuel) ==
    IF ~CalcOutLoopCond(st, sqrtPriceLimit)
    THEN [err |-> NoErr, state |-> st, trace |-> trace]
    ELSE IF fuel = 0 THEN [err |-> IterationCap, state |-> st, trace |-> trace]
    ELSE CHOOSE r \in
        {IF ~nt.ok THEN [err |-> NoErr, state |-> st, trace |-> trace]
         ELSE CHOOSE q \in
            {IF it.after = st
             THEN [err |-> NoReturn, state |-> it.after, trace |-> Append(trace, it)]
             ELSE CalcOutLoop(tk, it.after, zeroForOne, sqrtPriceLimit,
                              Append(trace, it), fuel - 1) :
                it \in {CalcOutIteration(tk, st, zeroForOne, sqrtPriceLimit,
                                         nt.tick)}} : TRUE :
            nt \in {NextInitializedTick(tk, st.tick, zeroForOne)}} : TRUE

\* The for loop of CalcOutAmtGivenIn: [err, state, trace].
CalcOutLoop(tk, st, zeroForOne, sqrtPriceLimit, trace, fuel) ==
    IF ~CalcOutLoopCond(st, sqrtPriceLimit)
    THEN [err |-> NoErr, state |-> st, trace |-> trace]
    ELSE IF fuel = 0 THEN [err |-> IterationCap, state |-> st, trace |-> trace]
    ELSE CHOOSE r \in
        {IF ~nt.ok THEN [err |-> ErrNoTicks, state |-> st, trace |-> trace]
         ELSE IF ~TickInBounds(nt.tick)
         THEN [err |-> ErrTickConv, state |-> st, trace |-> trace]
         ELSE CHOOSE q \in
            {IF it.after = st
             THEN [err |-> NoReturn, state |-> it.after, trace |-> Append(trace, it)]
             ELSE CalcOutLoop(tk, it.after, zeroForOne, sqrtPriceLimit,
                              Append(trace, it), fuel - 1) :
                it \in {CalcOutIteration(tk, st, zeroForOne, sqrtPriceLimit,
                                         nt.tick)}} : TRUE :
            nt \in {NextInitializedTick(tk, st.tick, zeroForOne)}} : TRUE

\* What a failed call hands back for its values: nothing.
Nothing == <<>>

\* Keeper.getPoolById
PoolExists(poolId) == poolId = TheOnePool

\* The validation as it would be with strict comparisons.
PriceLimitRejectedStrictly(zeroForOne, sqrtPriceLimit, curSqrtPrice) ==
    \/ (zeroForOne /\ (sqrtPriceLimit >= curSqrtPrice \/ sqrtPriceLimit <= MinSqrtRatio))
    \/ (~zeroForOne /\ (sqrtPriceLimit <= curSqrtPrice \/ sqrtPriceLimit >= MaxSqrtRatio))

\* The price-limit validation of CalcOutAmtGivenIn.
PriceLimitRejected(zeroForOne, sqrtPriceLimit, curSqrtPrice) ==
    \/ (zeroForOne /\ (sqrtPriceLimit > curSqrtPrice \/ sqrtPriceLimit < MinSqrtRatio))
    \/ (~zeroForOne /\ (sqrtPriceLimit < curSqrtPrice \/ sqrtPriceLimit > MaxSqrtRatio))

\* The first failing precondition of CalcOutAmtGivenIn, in the order tested.
CalcOutPrecondition(p, poolId, tokenIn, tokenOutDenom, sqrtPriceLimit) ==
    LET zeroForOne == tokenIn.denom = Asset0
    IN  IF ~PoolExists(poolId) THEN ErrPoolNotFound
        ELSE IF PriceLimitRejected(zeroForOne, sqrtPriceLimit, p.sqrtPrice)
        THEN ErrPriceLimit
        ELSE IF tokenIn.denom # Asset0 /\ tokenIn.denom # Asset1 THEN ErrTokenIn
        ELSE IF tokenOutDenom # Asset0 /\ tokenOutDenom # Asset1 THEN ErrTokenOut
        ELSE IF tokenIn.denom = tokenOutDenom THEN ErrInOutSame
        ELSE NoErr

\* The returned values as they would be with one unit more charged as input.
CalcOutValuesChargingMore(tokenAmountInAfterFee, state) ==
    [tokenIn |-> RoundInt(tokenAmountInAfterFee - state.amountSpecifiedRemaining) + 1,
     tokenOut |-> TruncateInt(state.amountCalculated),
     updatedTick |-> state.tick,
     updatedLiquidity |-> state.liquidity,
     updatedSqrtPrice |-> state.sqrtPrice]

\* The values CalcOutAmtGivenIn returns once its loop has ended in `state`.
CalcOutValues(tokenAmountInAfterFee, state) ==
    [tokenIn |-> RoundInt(tokenAmountInAfterFee - state.amountSpecifiedRemaining),
     tokenOut |-> TruncateInt(state.amountCalculated),
     updatedTick |-> state.tick,
     updatedLiquidity |-> state.liquidity,
     updatedSqrtPrice |-> state.sqrtPrice]

\* tokenIn.Amount.ToDec().Mul(sdk.OneDec().Sub(swapFee))
AmountAfterFee(amount, swapFee) == DecMul(ToDec(amount), Precision - swapFee)

\* Keeper.CalcOutAmtGivenIn on stored pool p and tick index tk:
\* [err, values, trace]; values is Nothing or one record of the five results.
CalcOutAmtGivenIn(p, tk, poolId, tokenIn, tokenOutDenom, swapFee, priceLimit) ==
    CHOOSE r \in
        {IF pre # NoErr THEN [err |-> pre, values |-> Nothing, trace |-> <<>>]
         ELSE CHOOSE q \in
            {IF run.err # NoErr
             THEN [err |-> run.err, values |-> Nothing, trace |-> run.trace]
             ELSE [err |-> NoErr,
                   values |-> <<CalcOutValues(AmountAfterFee(tokenIn.amount, swapFee),
                                              run.state)>>,
                   trace |-> run.trace] :
                run \in {CalcOutLoop(tk,
                            [amountSpecifiedRemaining |->
                                 AmountAfterFee(tokenIn.amount, swapFee),
                             amountCalculated |-> 0,
                             sqrtPrice |-> p.sqrtPrice,
                             tick |-> PriceToTick(DecSquare(p.sqrtPrice)),
                             liquidity |-> p.liquidity],
                            tokenIn.denom = Asset0, sqrtPriceLimit,
                            <<>>, MaxIter)}} : TRUE :
            sqrtPriceLimit \in {ApproxSqrt(priceLimit)},
            pre \in {CalcOutPrecondition(p, poolId, tokenIn, tokenOutDenom,
                                         ApproxSqrt(priceLimit))}} : TRUE

\* ApplySwap as it would be if it wrote the tick and the sqrt price back but
\* kept the liquidity the pool had.
ApplySwapKeepingLiquidity(p, newLiquidity, newCurrentTick, newSqrtPrice) ==
    [tick |-> newCurrentTick, liquidity |-> p.liquidity, sqrtPrice |-> newSqrtPrice]

\* Pool.ApplySwap followed by Keeper.setPool.
ApplySwap(p, newLiquidity, newCurrentTick, newSqrtPrice) ==
    [tick |-> newCurrentTick, liquidity |-> newLiquidity, sqrtPrice |-> newSqrtPrice]

\* SwapOutAmtGivenIn after its CalcOutAmtGivenIn call returned calc.
SwapOutAfterCalc(p, tokenIn, calc) ==
    IF calc.err # NoErr
    THEN [err |-> calc.err, tokenOut |-> Nothing, pool |-> p, calc |-> calc]
    ELSE IF calc.values[1].tokenIn > tokenIn.amount
    THEN [err |-> ErrCalcLarger, tokenOut |-> Nothing,
          pool |-> ApplySwap(p, calc.values[1].updatedLiquidity,
                             calc.values[1].updatedTick,
                             calc.values[1].updatedSqrtPrice),
          calc |-> calc]
    ELSE [err |-> NoErr, tokenOut |-> <<calc.values[1].tokenOut>>,
          pool |-> ApplySwap(p, calc.values[1].updatedLiquidity,
                             calc.values[1].updatedTick,
                             calc.values[1].updatedSqrtPrice),
          calc |-> calc]

\* Keeper.SwapOutAmtGivenIn: [err, tokenOut, pool, calc]; pool is the stored
\* pool when the call returns.
SwapOutAmtGivenIn(p, tk, poolId, tokenIn, tokenOutDenom, swapFee, priceLimit) ==
    CHOOSE r \in
        {SwapOutAfterCalc(p, tokenIn, calc) :
            calc \in {CalcOutAmtGivenIn(p, tk, poolId, tokenIn, tokenOutDenom,
                                        swapFee, priceLimit)}} : TRUE

\* ------------------------------------------------ exact-out orchestrator
\* types.Liquidity0: amount * (A * B) / (B - A), with A <= B.
Liquidity0(amount, sqrtPriceA, sqrtPriceB) ==
    LET a == IF sqrtPriceA > sqrtPriceB THEN sqrtPriceB ELSE sqrtPriceA
        b == IF sqrtPriceA > sqrtPriceB THEN sqrtPriceA ELSE sqrtPriceB
    IN  DecQuo(DecMul(ToDec(amount), DecMul(a, b)), b - a)

\* types.Liquidity1: amount / (B - A), with A <= B.
Liquidity1(amount, sqrtPriceA, sqrtPriceB) ==
    DecQuo(ToDec(amount), Abs(sqrtPriceB - sqrtPriceA))

\* The amounts CalcInAmtGivenOut derives its liquidity from (1000000 and
\* 5000000000 in the source, for a pool at price 5000; scaled to the grid).
amountETH == 1
amountUSDC == 4
\* The exact-out loop's stopping tolerance (0.000001 in the protocol's units).
EpsilonOut == 10
\* The upper price SwapInAmtGivenOut passes on, sdk.NewDec(9999999999)
\* (scaled to the grid); the lower one is sdk.ZeroDec().
OutMaxPrice == 100

ErrOutDenom == "tokenOut denom does not match any asset in pool"
ErrInDenom == "tokenInDenom does not match any asset in pool"
ErrOutInSame == "tokenOut cannot be the same as tokenIn"
ErrMinPrice == "minPrice must be less than current price"
ErrMaxPrice == "maxPrice must be greater than current price"
ErrNoLiquidity == "no liquidity available, cannot swap"
\* A Go run-time panic: the call does not return to its caller.
Panic == "panic"

\* The zero value of sdk.Dec (no number inside); a set decimal d is <<d>>.
NilDec == <<>>

\* The preconditions of CalcInAmtGivenOut as they would be if a band ending
\* exactly at the current price were let through.
CalcInPreconditionOpenAtPrice(p, poolId, tokenOut, tokenInDenom, minPrice, maxPrice) ==
    IF ~PoolExists(poolId) THEN ErrPoolNotFound
    ELSE IF tokenOut.denom # Asset0 /\ tokenOut.denom # Asset1 THEN ErrOutDenom
    ELSE IF tokenInDenom # Asset0 /\ tokenInDenom # Asset1 THEN ErrInDenom
    ELSE IF tokenOut.denom = tokenInDenom THEN ErrOutInSame
    ELSE IF minPrice > DecSquare(p.sqrtPrice) THEN ErrMinPrice
    ELSE IF maxPrice < DecSquare(p.sqrtPrice) THEN ErrMaxPrice
    ELSE NoErr

\* The first failing precondition of CalcInAmtGivenOut, in the order tested.
CalcInPrecondition(p, poolId, tokenOut, tokenInDenom, minPrice, maxPrice) ==
    IF ~PoolExists(poolId) THEN ErrPoolNotFound
    ELSE IF tokenOut.denom # Asset0 /\ tokenOut.denom # Asset1 THEN ErrOutDenom
    ELSE IF tokenInDenom # Asset0 /\ tokenInDenom # Asset1 THEN ErrInDenom
    ELSE IF tokenOut.denom = tokenInDenom THEN ErrOutInSame
    ELSE IF minPrice >= DecSquare(p.sqrtPrice) THEN ErrMinPrice
    ELSE IF maxPrice <= DecSquare(p.sqrtPrice) THEN ErrMaxPrice
    ELSE NoErr

\* Whether computing liq divides by zero (sdk.Dec.Quo panics).
LiqDividesByZero(curSqrtPrice, minPrice, maxPrice) ==
    ApproxSqrt(maxPrice) = curSqrtPrice \/ ApproxSqrt(minPrice) = curSqrtPrice

\* liq: the smaller of the two liquidities the fixed amounts give over the band.
LiqOfBand(curSqrtPrice, minPrice, maxPrice) ==
    LET liq0 == Liquidity0(amountETH, curSqrtPrice, ApproxSqrt(maxPrice))
        liq1 == Liquidity1(amountUSDC, curSqrtPrice, ApproxSqrt(minPrice))
    IN  IF liq0 < liq1 THEN liq0 ELSE liq1

\* The loop condition of CalcInAmtGivenOut.
CalcInLoopCond(st) == st.amountSpecifiedRemaining > EpsilonOut

\* The swap state after an exact-out iteration that did not cross: the
\* working sqrt price and the working liquidity are never written.
CalcInStateAfterStep(st, swapFee, step) ==
    [amountSpecifiedRemaining |-> st.amountSpecifiedRemaining - step.amountIn,
     amountCalculated |-> st.amountCalculated
                            + DecQuo(step.amountOut, Precision - swapFee),
     sqrtPrice |-> st.sqrtPrice,
     tick |-> PriceToTick(DecSquare(step.sqrtPrice)),
     liquidity |-> st.liquidity]

\* One iteration of the CalcInAmtGivenOut loop towards nextTick.  The tick is
\* crossed when the step's sqrt price equals the working sqrt price; adding
\* the tick's delta to the working liquidity, a nil decimal, panics.
CalcInIteration(tk, st, zeroForOne, liq, swapFee, nextTick) ==
    CHOOSE r \in
        {[before |-> st, nextTick |-> nextTick,
          nextSqrtPrice |-> TickToSqrtPrice(nextTick),
          liquidity |-> liq,
          amountIn |-> step.amountIn, amountOut |-> step.amountOut,
          sqrtPrice |-> step.sqrtPrice,
          crossed |-> (st.sqrtPrice = step.sqrtPrice),
          stored |-> CrossTick(tk, nextTick),
          panicked |-> (st.sqrtPrice = step.sqrtPrice /\ st.liquidity = NilDec),
          after |-> CalcInStateAfterStep(st, swapFee, step)] :
            step \in {ComputeSwapStep(st.sqrtPrice, TickToSqrtPrice(nextTick), liq,
                                      st.amountSpecifiedRemaining, zeroForOne)}} : TRUE

\* The for loop of CalcInAmtGivenOut: [err, state, trace].
RECURSIVE CalcInLoop(_, _, _, _, _, _, _)
CalcInLoop(tk, st, zeroForOne, liq, swapFee, trace, fuel) ==
    IF ~CalcInLoopCond(st)
    THEN [err |-> NoErr, state |-> st, trace |-> trace]
    ELSE IF fuel = 0 THEN [err |-> IterationCap, state |-> st, trace |-> trace]
    ELSE CHOOSE r \in
        {IF ~nt.ok THEN [err |-> ErrNoTicks, state |-> st, trace |-> trace]
         ELSE IF ~TickInBounds(nt.tick)
         THEN [err |-> ErrTickConv, state |-> st, trace |-> trace]
         ELSE CHOOSE q \in
            {IF it.panicked
             THEN [err |-> Panic, state |-> st, trace |-> Append(trace, it)]
             ELSE IF it.after = st
             THEN [err |-> NoReturn, state |-> it.after, trace |-> Append(trace, it)]
             ELSE CalcInLoop(tk, it.after, zeroForOne, liq, swapFee,
                             Append(trace, it), fuel - 1) :
                it \in {CalcInIteration(tk, st, zeroForOne, liq, swapFee,
                                        nt.tick)}} : TRUE :
            nt \in {NextInitializedTick(tk, st.tick, zeroForOne)}} : TRUE

\* The values CalcInAmtGivenOut returns once its loop has ended in `state`.
CalcInValues(state) ==
    [tokenIn |-> RoundInt(state.amountCalculated),
     updatedLiquidity |-> state.liquidity,
     updatedTick |-> state.tick,
     updatedSqrtPrice |-> state.sqrtPrice]

\* Keeper.CalcInAmtGivenOut on stored pool p and tick index tk:
\* [err, values, trace]; values is Nothing or one record of the four results.
CalcInAmtGivenOut(p, tk, poolId, tokenOut, tokenInDenom, swapFee, minPrice, maxPrice) ==
    CHOOSE r \in
        {IF pre # NoErr THEN [err |-> pre, values |-> Nothing, trace |-> <<>>]
         ELSE IF LiqDividesByZero(p.sqrtPrice, minPrice, maxPrice)
         THEN [err |-> Panic, values |-> Nothing, trace |-> <<>>]
         ELSE CHOOSE q \in
            {IF run.err # NoErr
             THEN [err |-> run.err, values |-> Nothing, trace |-> run.trace]
             ELSE [err |-> NoErr, values |-> <<CalcInValues(run.state)>>,
                   trace |-> run.trace] :
                run \in {CalcInLoop(tk,
                            [amountSpecifiedRemaining |-> ToDec(tokenOut.amount),
                             amountCalculated |-> 0,
                             sqrtPrice |-> p.sqrtPrice,
                             tick |-> PriceToTick(DecSquare(p.sqrtPrice)),
                             liquidity |-> NilDec],
                            tokenOut.denom = Asset0,
                            LiqOfBand(p.sqrtPrice, minPrice, maxPrice),
                            swapFee, <<>>, MaxIter)}} : TRUE :
            pre \in {CalcInPrecondition(p, poolId, tokenOut, tokenInDenom,
                                        minPrice, maxPrice)}} : TRUE

\* The decimal the store holds for d: a nil decimal is written as zero.
StoredDec(d) == IF d = NilDec THEN 0 ELSE d[1]

\* SwapInAmtGivenOut after its CalcInAmtGivenOut call returned calc.
SwapInAfterCalc(p, calc) ==
    IF calc.err # NoErr
    THEN [err |-> calc.err, tokenIn |-> Nothing, pool |-> p, calc |-> calc]
    ELSE [err |-> NoErr, tokenIn |-> <<calc.values[1].tokenIn>>,
          pool |-> ApplySwap(p, StoredDec(calc.values[1].updatedLiquidity),
                             calc.values[1].updatedTick,
                             calc.values[1].updatedSqrtPrice),
          calc |-> calc]

\* Keeper.SwapInAmtGivenOut: [err, tokenIn, pool, calc].  The band handed to
\* CalcInAmtGivenOut is fixed; the caller's minPrice and maxPrice are not read.
SwapInAmtGivenOut(p, tk, poolId, tokenOut, tokenInDenom, swapFee, minPrice, maxPrice) ==
    CHOOSE r \in
        {SwapInAfterCalc(p, calc) :
            calc \in {CalcInAmtGivenOut(p, tk, poolId, tokenOut, tokenInDenom,
                                        swapFee, 0, ToDec(OutMaxPrice))}} : TRUE

\* bankKeeper.SendCoins of one coin: [err, bank].
SendCoins(bk, from, to, coin) ==
    IF ~(coin.amount > 0) THEN [err |-> ErrInvalidCoins, bank |-> bk]
    ELSE IF bk[from][coin.denom] < coin.amount
    THEN [err |-> ErrInsufficientFunds, bank |-> bk]
    ELSE [err |-> NoErr,
          bank |-> IF from = to THEN bk
                   ELSE [bk EXCEPT ![from][coin.denom] = @ - coin.amount,
                                   ![to][coin.denom] = @ + coin.amount]]

\* Keeper.updatePoolForSwap: [err, bank, event]; event is the emitted swap
\* event, if any.
updatePoolForSwap(bk, sender, tokenIn, tokenOut) ==
    CHOOSE r \in
        {IF leg1.err # NoErr THEN [err |-> leg1.err, bank |-> leg1.bank, event |-> <<>>]
         ELSE CHOOSE q \in
            {IF leg2.err # NoErr
             THEN [err |-> leg2.err, bank |-> leg2.bank, event |-> <<>>]
             ELSE [err |-> NoErr, bank |-> leg2.bank,
                   event |-> <<[tokenIn |-> tokenIn, tokenOut |-> tokenOut]>>] :
                leg2 \in {SendCoins(leg1.bank, "pool", sender, tokenOut)}} : TRUE :
            leg1 \in {SendCoins(bk, sender, "pool", tokenIn)}} : TRUE

\* The price limits SwapExactAmountIn passes on: sdk.NewDec(1) when swapping
\* asset0 for asset1, sdk.NewDec(999999999999) otherwise (scaled to the grid).
LowPriceLimit == 1
HighPriceLimit == 20

ExactInPriceLimit(tokenIn) ==
    IF tokenIn.denom = Asset0 THEN ToDec(LowPriceLimit) ELSE ToDec(HighPriceLimit)

\* The result of a SwapExactAmountIn call that fails with e, the stored pool
\* being pl by then.
ExactInFailure(e, pl, bk, calc) ==
    [err |-> e, tokenOutAmount |-> Nothing, pool |-> pl, bank |-> bk,
     calc |-> calc, event |-> <<>>]

NoCalc == [err |-> NoErr, values |-> Nothing, trace |-> <<>>]

\* The checks after the swap as they would be without the one against the
\* minimum.
ExactInAfterSwapWithoutMinimum(bk, sender, tokenIn, tokenOutDenom, tokenOutMinAmount, swap) ==
    IF swap.err # NoErr THEN ExactInFailure(swap.err, swap.pool, bk, swap.calc)
    ELSE IF ~(swap.tokenOut[1] > 0)
    THEN ExactInFailure(ErrNotPositive, swap.pool, bk, swap.calc)
    ELSE CHOOSE r \in
        {IF settle.err # NoErr
         THEN ExactInFailure(settle.err, swap.pool, settle.bank, swap.calc)
         ELSE [err |-> NoErr, tokenOutAmount |-> swap.tokenOut,
               pool |-> swap.pool, bank |-> settle.bank, calc |-> swap.calc,
               event |-> settle.event] :
            settle \in {updatePoolForSwap(bk, sender, tokenIn,
                            [denom |-> tokenOutDenom,
                             amount |-> swap.tokenOut[1]])}} : TRUE

\* SwapExactAmountIn after its SwapOutAmtGivenIn call returned swap.
ExactInAfterSwap(bk, sender, tokenIn, tokenOutDenom, tokenOutMinAmount, swap) ==
    IF swap.err # NoErr THEN ExactInFailure(swap.err, swap.pool, bk, swap.calc)
    ELSE IF ~(swap.tokenOut[1] > 0)
    THEN ExactInFailure(ErrNotPositive, swap.pool, bk, swap.calc)
    ELSE IF swap.tokenOut[1] < tokenOutMinAmount
    THEN ExactInFailure(ErrMinAmount, swap.pool, bk, swap.calc)
    ELSE CHOOSE r \in
        {IF settle.err # NoErr
         THEN ExactInFailure(settle.err, swap.pool, settle.bank, swap.calc)
         ELSE [err |-> NoErr, tokenOutAmount |-> swap.tokenOut,
               pool |-> swap.pool, bank |-> settle.bank, calc |-> swap.calc,
               event |-> settle.event] :
            settle \in {updatePoolForSwap(bk, sender, tokenIn,
                            [denom |-> tokenOutDenom,
                             amount |-> swap.tokenOut[1]])}} : TRUE

\* Keeper.SwapExactAmountIn: [err, tokenOutAmount, pool, bank, calc, event].
SwapExactAmountIn(p, tk, bk, sender, poolId, tokenIn, tokenOutDenom, tokenOutMinAmount, swapFee) ==
    IF tokenIn.denom = tokenOutDenom THEN ExactInFailure(ErrSameDenom, p, bk, NoCalc)
    ELSE IF ~PoolExists(poolId) THEN ExactInFailure(ErrPoolNotFound, p, bk, NoCalc)
    ELSE CHOOSE r \in
        {ExactInAfterSwap(bk, sender, tokenIn, tokenOutDenom, tokenOutMinAmount, swap) :
            swap \in {SwapOutAmtGivenIn(p, tk, poolId, tokenIn, tokenOutDenom,
                                        swapFee, ExactInPriceLimit(tokenIn))}} : TRUE

\* Keeper.SwapExactAmountOut: [err, tokenInAmount, pool, bank].  Its body is
\* the single statement `return sdk.Int{}, nil`: no error, and the sdk.Int
\* with no number inside that the other calls return next to an error.
SwapExactAmountOut(p, bk, sender, poolId, tokenInDenom, tokenInMaxAmount, tokenOut, swapFee) ==
    [err |-> NoErr, tokenInAmount |-> Nothing, pool |-> p, bank |-> bk]

\* ------------------------------------------------------- initial states
RECURSIVE SumLiquidity(_)
SumLiquidity(ps) ==
    IF ps = {} THEN 0
    ELSE LET q == CHOOSE q \in ps : TRUE
         IN  q.liquidity + SumLiquidity(ps \ {q})

\* The tick index CreatePosition leaves: +liquidity at each position's lower
\* tick, -liquidity at its upper tick.
TicksOf(ps) ==
    [t \in MinTick..MaxTick |->
        SumLiquidity({q \in ps : q.lower = t}) - SumLiquidity({q \in ps : q.upper = t})]

\* The liquidity of the positions whose range holds the tick.
LiquidityAt(ps, tick) ==
    SumLiquidity({q \in ps : q.lower <= tick /\ tick < q.upper})

Position(lower, upper, liquidity) ==
    [lower |-> lower, upper |-> upper, liquidity |-> liquidity]

\* One range; one range of a liquidity large against the decimal precision;
\* two consecutive ranges; two ranges with a gap between them.
PositionSets ==
    { {Position(0, 3, 400)},
      {Position(0, 3, 1700)},
      {Position(0, 2, 400), Position(2, 4, 200)},
      {Position(-2, 2, 300), Position(3, 5, 200)} }

\* Sqrt prices pools are created at: below price 1, and inside a range above it.
InitSqrtPrices == {80, 200}

Accounts == {"trader", "pool"}
\* The trader holds the largest amount a call may name, in each denomination;
\* the pool account holds no asset0 yet.
TraderFunds == MaxAmount
PoolFunds == [d \in Denoms |-> IF d = Asset0 THEN 0 ELSE 2 * MaxAmount]

SwapFees == {0, 25}

NoArgs == [poolId |-> 0]

NoCall ==
    [op |-> "none", args |-> NoArgs, err |-> NoErr, out |-> Nothing,
     calc |-> NoCalc,
     prePool |-> [tick |-> 0, liquidity |-> 0, sqrtPrice |-> 0],
     preBank |-> <<>>, event |-> <<>>, changed |-> FALSE]

Init ==
    \E ps \in PositionSets, sp \in InitSqrtPrices, fee \in SwapFees :
        /\ positions = ps
        /\ ticks = TicksOf(ps)
        /\ pool = [tick |-> PriceToTick(DecSquare(sp)),
                   liquidity |-> LiquidityAt(ps, PriceToTick(DecSquare(sp))),
                   sqrtPrice |-> sp]
        /\ bank = [a \in Accounts |->
                      IF a = "trader" THEN [d \in Denoms |-> TraderFunds]
                      ELSE PoolFunds]
        /\ poolFee = fee
        /\ nSwaps = 0
        /\ last = NoCall

\* ------------------------------------------------------------- the calls
\* What callers pass in.
Amounts == 0..MaxAmount
Coin(denom, amount) == [denom |-> denom, amount |-> amount]
\* The trades asked for, as <<coin, other denomination>>: every amount in both
\* directions of the pool's pair, and one trade for each invalid pairing.
Trades ==
    {<<Coin(Asset0, a), Asset1>> : a \in Amounts}
        \cup {<<Coin(Asset1, a), Asset0>> : a \in Amounts}
        \cup {<<Coin(Asset0, 1), Asset0>>, <<Coin("foo", 1), Asset1>>,
              <<Coin(Asset0, 1), "foo">>}
PriceLimits == {0, 20, 100, 400, 2000, 5746, 10000}
PriceBands == {<<0, 10000>>, <<100, 900>>, <<400, 2000>>}
PoolIds == {TheOnePool}
MinAmounts == 0..2

\* A call that left the store as it found it is followed by no further call:
\* the next call would meet the store a call made in its place meets.  Calls
\* that change the store are followed up to MaxSwaps deep.
CanCall == last.op = "none" \/ (last.changed /\ nSwaps <= MaxSwaps)

Record(op, args, err, out, calc, event, newPool, newBank) ==
    /\ pool' = newPool
    /\ bank' = newBank
    /\ nSwaps' = IF newPool # pool \/ newBank # bank THEN nSwaps + 1 ELSE nSwaps
    /\ last' = [op |-> op, args |-> args, err |-> err, out |-> out, calc |-> calc,
                prePool |-> pool, preBank |-> bank, event |-> event,
                changed |-> (newPool # pool \/ newBank # bank)]
    /\ UNCHANGED <<ticks, positions, poolFee>>

\* CalcOutAmtGivenIn as it would be if it stored the pool it computed, the way
\* SwapOutAmtGivenIn does.
CallCalcOutAmtGivenInStoringPool ==
    /\ CanCall
    /\ \E poolId \in PoolIds, trade \in Trades,
          priceLimit \in PriceLimits :
        \E r \in {SwapOutAmtGivenIn(pool, ticks, poolId, trade[1], trade[2],
                                     poolFee, priceLimit)} :
            Record("CalcOutAmtGivenIn",
                   [poolId |-> poolId, tokenIn |-> trade[1],
                    tokenOutDenom |-> trade[2], swapFee |-> poolFee,
                    priceLimit |-> priceLimit],
                   r.calc.err, Nothing, r.calc, <<>>, r.pool, bank)

CallCalcOutAmtGivenIn ==
    /\ CanCall
    /\ \E poolId \in PoolIds, trade \in Trades,
          priceLimit \in PriceLimits :
        \E r \in {CalcOutAmtGivenIn(pool, ticks, poolId, trade[1], trade[2],
                                     poolFee, priceLimit)} :
            Record("CalcOutAmtGivenIn",
                   [poolId |-> poolId, tokenIn |-> trade[1],
                    tokenOutDenom |-> trade[2], swapFee |-> poolFee,
                    priceLimit |-> priceLimit],
                   r.err, Nothing, r, <<>>, pool, bank)

CallSwapOutAmtGivenIn ==
    /\ CanCall
    /\ \E poolId \in PoolIds, trade \in Trades,
          priceLimit \in PriceLimits :
        \E r \in {SwapOutAmtGivenIn(pool, ticks, poolId, trade[1], trade[2],
                                     poolFee, priceLimit)} :
            Record("SwapOutAmtGivenIn",
                   [poolId |-> poolId, tokenIn |-> trade[1],
                    tokenOutDenom |-> trade[2], swapFee |-> poolFee,
                    priceLimit |-> priceLimit],
                   r.err, r.tokenOut, r.calc, <<>>, r.pool, bank)

CallSwapExactAmountIn ==
    /\ CanCall
    /\ \E poolId \in PoolIds, trade \in Trades,
          minAmount \in MinAmounts :
        \E r \in {SwapExactAmountIn(pool, ticks, bank, "trader", poolId, trade[1],
                                     trade[2], minAmount, poolFee)} :
            Record("SwapExactAmountIn",
                   [poolId |-> poolId, tokenIn |-> trade[1],
                    tokenOutDenom |-> trade[2], swapFee |-> poolFee,
                    priceLimit |-> ExactInPriceLimit(trade[1]),
                    tokenOutMinAmount |-> minAmount],
                   r.err, r.tokenOutAmount, r.calc, r.event, r.pool, r.bank)

CallCalcInAmtGivenOut ==
    /\ CanCall
    /\ \E poolId \in PoolIds, trade \in Trades,
          band \in PriceBands :
        \E r \in {CalcInAmtGivenOut(pool, ticks, poolId, trade[1], trade[2],
                                     poolFee, band[1], band[2])} :
            Record("CalcInAmtGivenOut",
                   [poolId |-> poolId, tokenOut |-> trade[1],
                    tokenInDenom |-> trade[2], swapFee |-> poolFee,
                    minPrice |-> band[1], maxPrice |-> band[2]],
                   r.err, Nothing, r, <<>>, pool, bank)

CallSwapInAmtGivenOut ==
    /\ CanCall
    /\ \E poolId \in PoolIds, trade \in Trades,
          band \in PriceBands :
        \E r \in {SwapInAmtGivenOut(pool, ticks, poolId, trade[1], trade[2],
                                     poolFee, band[1], band[2])} :
            Record("SwapInAmtGivenOut",
                   [poolId |-> poolId, tokenOut |-> trade[1],
                    tokenInDenom |-> trade[2], swapFee |-> poolFee,
                    minPrice |-> band[1], maxPrice |-> band[2]],
                   r.err, r.tokenIn, r.calc, <<>>, r.pool, bank)

\* The largest inputs callers of SwapExactAmountOut allow.
MaxInAmounts == {0, MaxAmount}

CallSwapExactAmountOut ==
    /\ CanCall
    /\ \E poolId \in PoolIds, trade \in Trades, maxAmount \in MaxInAmounts :
        \E r \in {SwapExactAmountOut(pool, bank, "trader", poolId, trade[2],
                                      maxAmount, trade[1], poolFee)} :
            Record("SwapExactAmountOut",
                   [poolId |-> poolId, tokenOut |-> trade[1],
                    tokenInDenom |-> trade[2], swapFee |-> poolFee,
                    tokenInMaxAmount |-> maxAmount],
                   r.err, r.tokenInAmount, NoCalc, <<>>, r.pool, r.bank)

\* ------------------------------------------------ pool denomination order
\* The denominations pools are created with, and the bytes of each name.
InitialPoolDenoms == {"axel", "osmo", "usdc", "eth", "usd"}
DenomBytes ==
    [d \in InitialPoolDenoms |->
        CASE d = "axel" -> <<97, 120, 101, 108>>
          [] d = "osmo" -> <<111, 115, 109, 111>>
          [] d = "usdc" -> <<117, 115, 100, 99>>
          [] d = "eth"  -> <<101, 116, 104>>
          [] d = "usd"  -> <<117, 115, 100>>]

\* Go's < on strings: byte by byte, a proper prefix first.
RECURSIVE BytesLess(_, _)
BytesLess(x, y) ==
    IF y = <<>> THEN FALSE
    ELSE IF x = <<>> THEN TRUE
    ELSE IF Head(x) # Head(y) THEN Head(x) < Head(y)
    ELSE BytesLess(Tail(x), Tail(y))

ErrSameAsset == "cannot have the same asset in a single pool"

\* The ordering as it would be if the two names were returned as passed.
OrderInitialPoolDenomsAsGiven(denom0, denom1) ==
    IF denom0 = denom1 THEN [err |-> ErrSameAsset, denoms |-> Nothing]
    ELSE [err |-> NoErr, denoms |-> <<denom0, denom1>>]

\* types.OrderInitialPoolDenoms: [err, denoms].
OrderInitialPoolDenoms(denom0, denom1) ==
    IF denom0 = denom1 THEN [err |-> ErrSameAsset, denoms |-> Nothing]
    ELSE IF BytesLess(DenomBytes[denom1], DenomBytes[denom0])
    THEN [err |-> NoErr, denoms |-> <<denom1, denom0>>]
    ELSE [err |-> NoErr, denoms |-> <<denom0, denom1>>]

\* The function reads no state: it is called on the pools as created.
CallOrderInitialPoolDenoms ==
    /\ last.op = "none"
    /\ \E denom0 \in InitialPoolDenoms, denom1 \in InitialPoolDenoms :
        \E r \in {OrderInitialPoolDenoms(denom0, denom1)} :
            Record("OrderInitialPoolDenoms",
                   [poolId |-> 0, denom0 |-> denom0, denom1 |-> denom1],
                   r.err, r.denoms, NoCalc, <<>>, pool, bank)

\* -------------------------------------------------- tick to price to tick
\* PriceToTick(TickToSqrtPrice(t).Power(2)): the tick the code derives from
\* the sqrt price of tick t; nothing when t is outside MinTick..MaxTick, where
\* TickToSqrtPrice fails.
TickOfTickSqrtPrice(t) ==
    IF TickInBounds(t) THEN <<PriceToTick(DecSquare(TickToSqrtPrice(t)))>>
    ELSE Nothing

\* The conversion reads no state: it is applied to every tick of the range.
CallTickOfTickSqrtPrice ==
    /\ last.op = "none"
    /\ \E t \in MinTick..MaxTick :
        Record("TickOfTickSqrtPrice", [poolId |-> 0, tick |-> t],
               NoErr, TickOfTickSqrtPrice(t), NoCalc, <<>>, pool, bank)

\* ------------------------------------------- arbitrage-solver end block
\* The amount and denomination EndBlockLogic starts from, and its route: the
\* pool ids it swaps through, in order.
startingAmount == 1000000
startingToken == "uosmo"
pools == <<1>>

ErrGammPoolNotFound == "gamm pool not found"
ErrGammSwap == "gamm swap failed"

\* What the gamm keeper may answer during one hop: the error of GetPool, the
\* denominations of GetTotalLiquidity in their sorted order, and the error and
\* amount of SwapExactAmountIn.
GammPoolErrors == {NoErr, ErrGammPoolNotFound}
TotalLiquidityDenoms == {<<"uatom", "uosmo">>, <<"uosmo", "uusd">>, <<"uosmo">>}
GammSwapResults ==
    {[err |-> ErrGammSwap, sentCoins |-> 0],
     [err |-> NoErr, sentCoins |-> 0],
     [err |-> NoErr, sentCoins |-> 999000]}
HopAnswers ==
    [poolErr : GammPoolErrors, assetsInPool : TotalLiquidityDenoms,
     swap : GammSwapResults]

\* The denomination a hop swaps to: the second of the total liquidity if the
\* current token is the first, the first otherwise.
TokenOutDenom(curToken, assetsInPool) ==
    IF curToken = assetsInPool[1] THEN assetsInPool[2] ELSE assetsInPool[1]

\* Whether GetDenomByIndex is asked for a coin the total liquidity lacks.
DenomIndexOutOfRange(curToken, assetsInPool) ==
    Len(assetsInPool) < (IF curToken = assetsInPool[1] THEN 2 ELSE 1)

\* The record of hop i: what it looked up, what it swapped and what came back.
Hop(i, answer, swapInput, swapped, tokenOutDenom) ==
    [poolId |-> pools[i], poolErr |-> answer.poolErr, swapped |-> swapped,
     swapInput |-> swapInput, tokenOutDenom |-> tokenOutDenom,
     swapErr |-> IF swapped THEN answer.swap.err ELSE NoErr,
     sentCoins |-> IF swapped THEN answer.swap.sentCoins ELSE 0]

RECURSIVE EndBlockLoop(_, _, _, _, _)
\* The loop as it would be if it went on to the next hop after a failed swap.
EndBlockLoopPastSwapError(answers, i, swapInput, curToken, trace) ==
    IF i > Len(pools) THEN [err |-> NoErr, trace |-> trace]
    ELSE IF answers[i].poolErr # NoErr
    THEN [err |-> answers[i].poolErr,
          trace |-> Append(trace, Hop(i, answers[i], swapInput, FALSE, ""))]
    ELSE IF DenomIndexOutOfRange(curToken, answers[i].assetsInPool)
    THEN [err |-> Panic,
          trace |-> Append(trace, Hop(i, answers[i], swapInput, FALSE, ""))]
    ELSE CHOOSE r \in
        {EndBlockLoop(answers, i + 1,
                      [denom |-> tokenOutDenom,
                       amount |-> answers[i].swap.sentCoins],
                      tokenOutDenom,
                      Append(trace, Hop(i, answers[i], swapInput, TRUE,
                                        tokenOutDenom))) :
            tokenOutDenom \in {TokenOutDenom(curToken, answers[i].assetsInPool)}} : TRUE

\* The for loop of EndBlockLogic from hop i on: [err, trace].
EndBlockLoop(answers, i, swapInput, curToken, trace) ==
    IF i > Len(pools) THEN [err |-> NoErr, trace |-> trace]
    ELSE IF answers[i].poolErr # NoErr
    THEN [err |-> answers[i].poolErr,
          trace |-> Append(trace, Hop(i, answers[i], swapInput, FALSE, ""))]
    ELSE IF DenomIndexOutOfRange(curToken, answers[i].assetsInPool)
    THEN [err |-> Panic,
          trace |-> Append(trace, Hop(i, answers[i], swapInput, FALSE, ""))]
    ELSE CHOOSE r \in
        {IF answers[i].swap.err # NoErr
         THEN [err |-> answers[i].swap.err,
               trace |-> Append(trace, Hop(i, answers[i], swapInput, TRUE,
                                           tokenOutDenom))]
         ELSE EndBlockLoop(answers, i + 1,
                           [denom |-> tokenOutDenom,
                            amount |-> answers[i].swap.sentCoins],
                           tokenOutDenom,
                           Append(trace, Hop(i, answers[i], swapInput, TRUE,
                                             tokenOutDenom))) :
            tokenOutDenom \in {TokenOutDenom(curToken, answers[i].assetsInPool)}} : TRUE

\* Keeper.EndBlockLogic: [err, trace].
EndBlockLogic(answers) ==
    EndBlockLoop(answers, 1,
                 [denom |-> startingToken, amount |-> startingAmount],
                 startingToken, <<>>)

\* The end block reads nothing of the concentrated-liquidity store.
CallEndBlockLogic ==
    /\ last.op = "none"
    /\ \E answers \in [1..Len(pools) -> HopAnswers] :
        \E r \in {EndBlockLogic(answers)} :
            Record("EndBlockLogic", [poolId |-> 0, answers |-> answers],
                   r.err, Nothing,
                   [err |-> r.err, values |-> Nothing, trace |-> r.trace],
                   <<>>, pool, bank)

Next ==
    \/ CallCalcOutAmtGivenIn
    \/ CallSwapOutAmtGivenIn
    \/ CallSwapExactAmountIn
    \/ CallCalcInAmtGivenOut
    \/ CallSwapInAmtGivenOut
    \/ CallSwapExactAmountOut
    \/ CallOrderInitialPoolDenoms
    \/ CallTickOfTickSqrtPrice
    \/ CallEndBlockLogic

Spec == Init /\ [][Next]_vars

\* =================================================================== claims
\* What the last call was.
ExactInOps == {"CalcOutAmtGivenIn", "SwapOutAmtGivenIn", "SwapExactAmountIn"}
IsExactIn == last.op \in ExactInOps
\* The five values CalcOutAmtGivenIn handed back inside the last call.
Returned == last.calc.values[1]
\* The direction of the last exact-in call.
LastZeroForOne == last.args.tokenIn.denom = Asset0

\* C1: whenever SwapExactAmountIn returns an error, the pool's stored tick,
\* liquidity and sqrt price are the ones it had before the call.
C1_ErrorLeavesPoolUnchanged ==
    (last.op = "SwapExactAmountIn" /\ last.err # NoErr) => pool = last.prePool

\* C2: the two-leg transfer is all-or-nothing: when a SendCoins leg of
\* updatePoolForSwap fails, no balance differs from its value before the call.
C2_TransferAllOrNothing ==
    (last.op = "SwapExactAmountIn"
        /\ last.err \in {ErrInsufficientFunds, ErrInvalidCoins})
    => bank = last.preBank

\* C3: after a successful SwapOutAmtGivenIn or SwapInAmtGivenOut the stored
\* tick is PriceToTick of the stored sqrt price squared.
C3_StoredTickIsTickOfPrice ==
    (last.op \in {"SwapOutAmtGivenIn", "SwapInAmtGivenOut"} /\ last.err = NoErr)
    => pool.tick = PriceToTick(DecSquare(pool.sqrtPrice))

\* Total liquidity of the positions whose range holds sqrt price sp; a
\* boundary price counts for the range above it (Over) or below it (Under).
LiquidityOver(ps, sp) ==
    SumLiquidity({q \in ps : TickToSqrtPrice(q.lower) <= sp
                             /\ sp < TickToSqrtPrice(q.upper)})
LiquidityUnder(ps, sp) ==
    SumLiquidity({q \in ps : TickToSqrtPrice(q.lower) < sp
                             /\ sp <= TickToSqrtPrice(q.upper)})
MatchesPositions(p) ==
    p.liquidity \in {LiquidityOver(positions, p.sqrtPrice),
                     LiquidityUnder(positions, p.sqrtPrice)}

\* C4: a successful exact-in swap that starts from a pool whose liquidity is
\* that of the positions holding its price leaves a pool whose liquidity is
\* that of the positions holding its new price (so this holds after any
\* sequence of them).
C4_LiquidityIsThatOfPositions ==
    (last.op \in {"SwapOutAmtGivenIn", "SwapExactAmountIn"} /\ last.err = NoErr
        /\ MatchesPositions(last.prePool))
    => MatchesPositions(pool)

ExactOutOps == {"CalcInAmtGivenOut", "SwapInAmtGivenOut"}

\* Every crossing of an exact-in trace adds the tick's stored delta when the
\* price is increasing and subtracts it when the price is decreasing.
ExactInCrossingsConserve(trace, increasing) ==
    \A i \in 1..Len(trace) :
        trace[i].crossed =>
            trace[i].after.liquidity =
                trace[i].before.liquidity
                    + (IF increasing THEN trace[i].stored ELSE -trace[i].stored)

\* The same for an exact-out trace, whose working liquidity may be nil.  A
\* tick is crossed when the step ends at its sqrt price, or when the code
\* takes its crossing branch.
ExactOutCrossingsConserve(trace, increasing) ==
    \A i \in 1..Len(trace) :
        (trace[i].sqrtPrice = trace[i].nextSqrtPrice \/ trace[i].crossed) =>
            /\ ~trace[i].panicked
            /\ trace[i].before.liquidity # NilDec
            /\ trace[i].after.liquidity =
                <<trace[i].before.liquidity[1]
                    + (IF increasing THEN trace[i].stored ELSE -trace[i].stored)>>

\* C5: in CalcOutAmtGivenIn and in CalcInAmtGivenOut, right after a tick is
\* crossed the working liquidity is the pre-cross working liquidity plus the
\* tick's stored delta (price increasing) or minus it (price decreasing).
C5_CrossingConservesLiquidity ==
    /\ IsExactIn => ExactInCrossingsConserve(last.calc.trace, ~LastZeroForOne)
    /\ last.op \in ExactOutOps =>
          ExactOutCrossingsConserve(last.calc.trace,
                                    last.args.tokenOut.denom # Asset0)

\* The exact-in part of C5 alone.
ExactInConserves ==
    IsExactIn => ExactInCrossingsConserve(last.calc.trace, ~LastZeroForOne)

PoolDenoms == {Asset0, Asset1}
BadDenoms(denomA, denomB) ==
    denomA = denomB \/ denomA \notin PoolDenoms \/ denomB \notin PoolDenoms
DenomErrors == {ErrSameDenom, ErrTokenIn, ErrTokenOut, ErrInOutSame}

\* C6: an exact-in swap whose denominations are equal or not the pool's fails
\* with a denomination error and leaves the pool as it was, whatever the
\* price limit.
C6_BadDenomsGiveDenomError ==
    (IsExactIn /\ BadDenoms(last.args.tokenIn.denom, last.args.tokenOutDenom))
    => (last.err \in DenomErrors /\ pool = last.prePool)

\* The sqrt price limit of the last exact-in call.
LastSqrtLimit == ApproxSqrt(last.args.priceLimit)

C8_LimitAtCurrentPriceIsNoOp ==
    (last.op = "CalcOutAmtGivenIn"
        /\ ~BadDenoms(last.args.tokenIn.denom, last.args.tokenOutDenom)
        /\ LastSqrtLimit = last.prePool.sqrtPrice)
    => /\ last.err = NoErr
       /\ last.calc.trace = <<>>
       /\ Returned.tokenIn = 0
       /\ Returned.tokenOut = 0
       /\ Returned.updatedTick = last.prePool.tick
       /\ Returned.updatedLiquidity = last.prePool.liquidity
       /\ Returned.updatedSqrtPrice = last.prePool.sqrtPrice

\* C8 for pools whose stored tick is the tick of their price.
C8OnConsistentPool ==
    last.prePool.tick = PriceToTick(DecSquare(last.prePool.sqrtPrice))
    => C8_LimitAtCurrentPriceIsNoOp

\* The swap states at which the last CalcOutAmtGivenIn call tested its loop
\* condition: the one it starts from, then the one after each iteration.
LoopStates ==
    {[amountSpecifiedRemaining |->
          AmountAfterFee(last.args.tokenIn.amount, last.args.swapFee),
      sqrtPrice |-> last.prePool.sqrtPrice,
      tick |-> PriceToTick(DecSquare(last.prePool.sqrtPrice))]}
    \cup {[amountSpecifiedRemaining |->
               last.calc.trace[i].after.amountSpecifiedRemaining,
           sqrtPrice |-> last.calc.trace[i].after.sqrtPrice,
           tick |-> last.calc.trace[i].after.tick] : i \in 1..Len(last.calc.trace)}

\* The loop goes on from st and no initialized tick lies strictly past st.tick.
OutOfTicksAt(st) ==
    /\ st.amountSpecifiedRemaining > Epsilon
    /\ st.sqrtPrice # LastSqrtLimit
    /\ ~\E t \in MinTick..MaxTick :
          /\ ticks[t] # 0
          /\ IF LastZeroForOne THEN t < st.tick ELSE t > st.tick

PreconditionErrors ==
    {ErrPoolNotFound, ErrPriceLimit, ErrTokenIn, ErrTokenOut, ErrInOutSame}

\* C9: when an iteration of CalcOutAmtGivenIn starts with no initialized tick
\* strictly past the working tick, the call fails with the no-more-ticks
\* error and returns no values.
C9_NoTickPastWorkingTickFails ==
    (last.op = "CalcOutAmtGivenIn" /\ last.err \notin PreconditionErrors
        /\ \E st \in LoopStates : OutOfTicksAt(st))
    => (last.err = ErrNoTicks /\ last.calc.values = Nothing)

\* The ticks ran out after at least one iteration.
C9_RanOutOfTicksMidLoop ==
    /\ last.op = "CalcOutAmtGivenIn"
    /\ last.err = ErrNoTicks
    /\ Len(last.calc.trace) >= 1

\* C10: a SwapExactAmountIn that returns without error returns an amount that
\* is positive and at least tokenOutMinAmount; when the computed output is
\* not positive or below tokenOutMinAmount the call returns an error and
\* moves no balance.
C10_OutputPositiveAndAtLeastMinimum ==
    last.op = "SwapExactAmountIn" =>
        /\ last.err = NoErr =>
              (last.out[1] > 0 /\ last.out[1] >= last.args.tokenOutMinAmount)
        /\ (last.calc.err = NoErr /\ last.calc.values # Nothing
                /\ (Returned.tokenOut <= 0
                    \/ Returned.tokenOut < last.args.tokenOutMinAmount))
           => (last.err # NoErr /\ bank = last.preBank /\ last.event = <<>>)

\* A positive computed output below the caller's minimum has been refused.
C10_BelowMinimumRefused ==
    /\ last.op = "SwapExactAmountIn"
    /\ last.err = ErrMinAmount
    /\ Returned.tokenOut > 0

\* C11: the input CalcOutAmtGivenIn reports as realized never exceeds the
\* input supplied, and SwapOutAmtGivenIn refuses a result in which it does.
C11_RealizedInputWithinSupplied ==
    (IsExactIn /\ last.calc.err = NoErr /\ last.calc.values # Nothing) =>
        /\ Returned.tokenIn <= last.args.tokenIn.amount
        /\ (last.op # "CalcOutAmtGivenIn"
                /\ Returned.tokenIn > last.args.tokenIn.amount)
           => last.err = ErrCalcLarger

\* A swap with a fee has consumed its whole input across a tick, and the
\* realized input is the whole amount supplied.
C11_WholeInputRealized ==
    /\ last.op = "SwapOutAmtGivenIn"
    /\ last.err = NoErr
    /\ last.args.swapFee > 0
    /\ Len(last.calc.trace) >= 2
    /\ Returned.tokenIn = last.args.tokenIn.amount
    /\ Returned.tokenIn > 0

\* The smallest integer >= decimal d, and the largest integer <= d.
CeilInt(d) == -((-d) \div Precision)
FloorInt(d) == d \div Precision

\* The swap state in which the loop of the last exact-in call ended.
LastFinalState ==
    IF last.calc.trace = <<>>
    THEN [amountSpecifiedRemaining |->
              AmountAfterFee(last.args.tokenIn.amount, last.args.swapFee),
          amountCalculated |-> 0]
    ELSE last.calc.trace[Len(last.calc.trace)].after

\* The decimal input the last exact-in call consumed.
LastConsumed ==
    AmountAfterFee(last.args.tokenIn.amount, last.args.swapFee)
        - LastFinalState.amountSpecifiedRemaining

\* C12: the realized input CalcOutAmtGivenIn returns is the consumed input
\* rounded up to an integer, and the realized output is the accumulated
\* output rounded down.
C12_AmountsRoundedInPoolsFavour ==
    (IsExactIn /\ last.calc.err = NoErr /\ last.calc.values # Nothing) =>
        /\ Returned.tokenIn = CeilInt(LastConsumed)
        /\ Returned.tokenOut = FloorInt(LastFinalState.amountCalculated)

\* The last CalcOutAmtGivenIn call made again with input amount a, everything
\* else as it was.
LastCalcOutWith(a) ==
    CalcOutAmtGivenIn(last.prePool, ticks, last.args.poolId,
                      Coin(last.args.tokenIn.denom, a), last.args.tokenOutDenom,
                      last.args.swapFee, last.args.priceLimit)

RoundTripRequest(band) ==
    CalcInAmtGivenOut(pool, ticks, last.args.poolId,
                      Coin(last.args.tokenOutDenom, last.out[1]),
                      last.args.tokenIn.denom, last.args.swapFee,
                      band[1], band[2])

\* C14: after an exact-in swap of X of asset A that paid out Y of asset B,
\* asking right away for exactly Y of B by exact-out requires an input of at
\* least X (X taken as the input the swap realized).
C14_RoundTripNeverFavoursTrader ==
    (last.op = "SwapOutAmtGivenIn" /\ last.err = NoErr /\ last.out[1] > 0) =>
        \A band \in PriceBands :
            \A r \in {RoundTripRequest(band)} :
                r.err = NoErr => r.values[1].tokenIn >= Returned.tokenIn

\* The last exact-in call succeeded with one swap step that crossed no tick.
FilledInOneSegment ==
    /\ IsExactIn
    /\ last.calc.err = NoErr
    /\ last.calc.values # Nothing
    /\ Len(last.calc.trace) = 1
    /\ ~last.calc.trace[1].crossed

\* C15: an exact-in swap filled inside one liquidity segment accumulates
\* exactly the amountOut of its one ComputeSwapStep call, leaves the working
\* liquidity as it was and returns the tick of its final sqrt price squared.
C15_SingleSegmentSwapIsOneStep ==
    FilledInOneSegment =>
        /\ last.calc.trace[1].after.amountCalculated = last.calc.trace[1].amountOut
        /\ Returned.tokenOut = TruncateInt(last.calc.trace[1].amountOut)
        /\ Returned.updatedLiquidity = last.prePool.liquidity
        /\ Returned.updatedTick = PriceToTick(DecSquare(Returned.updatedSqrtPrice))

\* A one-segment swap has moved the price into another tick and paid out.
C15_OneStepMovedTheTick ==
    /\ FilledInOneSegment
    /\ Returned.updatedTick # PriceToTick(DecSquare(last.prePool.sqrtPrice))
    /\ Returned.tokenOut > 0
    /\ last.prePool.liquidity > 0

\* What the exact-out computation gives for the last SwapExactAmountOut call
\* on the pool it met.
LastExactOutCalc ==
    CalcInAmtGivenOut(last.prePool, ticks, last.args.poolId, last.args.tokenOut,
                      last.args.tokenInDenom, last.args.swapFee,
                      0, ToDec(OutMaxPrice))

\* C16: a SwapExactAmountOut that reports success returns the realized input
\* of an exact-out swap it has computed and settled, and it fails whenever
\* that input would exceed tokenInMaxAmount.
C16_ExactOutReturnsRealizedInput ==
    last.op = "SwapExactAmountOut" =>
        \A c \in {LastExactOutCalc} :
            /\ last.err = NoErr =>
                  /\ c.err = NoErr
                  /\ last.out = <<c.values[1].tokenIn>>
                  /\ last.event # <<>>
            /\ (c.err = NoErr /\ c.values[1].tokenIn > last.args.tokenInMaxAmount)
               => last.err # NoErr

\* The current price of the pool the last call met.
LastPrice == DecSquare(last.prePool.sqrtPrice)

\* C17: CalcInAmtGivenOut fails with an error, without running a loop
\* iteration, whenever minPrice >= current price or maxPrice <= current price.
C17_PriceOutsideBandFails ==
    (last.op = "CalcInAmtGivenOut"
        /\ (last.args.minPrice >= LastPrice \/ last.args.maxPrice <= LastPrice))
    => /\ last.err \notin {NoErr, Panic}
       /\ last.calc.trace = <<>>
       /\ last.calc.values = Nothing

\* A band that starts exactly at the current price has been refused.
C17_BandAtPriceRefused ==
    /\ last.op = "CalcInAmtGivenOut"
    /\ last.err = ErrMinPrice
    /\ last.args.minPrice = LastPrice

\* Iteration i of the last exact-out call crossed a tick: its step ended at
\* the tick's sqrt price, or the code took its crossing branch.
ExactOutCrossedAt(i) ==
    \/ last.calc.trace[i].sqrtPrice = last.calc.trace[i].nextSqrtPrice
    \/ last.calc.trace[i].crossed

\* The pool's starting liquidity adjusted by the deltas of the ticks the last
\* exact-out call crossed in its first i iterations.
RECURSIVE LiquidityAfterCrossings(_)
LiquidityAfterCrossings(i) ==
    IF i = 0 THEN last.prePool.liquidity
    ELSE LiquidityAfterCrossings(i - 1)
            + (IF ~ExactOutCrossedAt(i) THEN 0
               ELSE IF last.args.tokenOut.denom # Asset0
               THEN last.calc.trace[i].stored
               ELSE -last.calc.trace[i].stored)

\* The errors of the no-liquidity kind: no liquidity left after a crossing,
\* and no initialized tick left to go to.
NoLiquidityErrors == {ErrNoLiquidity, ErrNoTicks}

\* C18: in CalcInAmtGivenOut, a crossing that leaves the working liquidity at
\* zero or below ends the call with the no-liquidity error, and a crossing
\* that leaves it positive lets the traversal go on.
C18_CrossingToNoLiquidityFails ==
    last.op \in ExactOutOps =>
        \A i \in 1..Len(last.calc.trace) :
            ExactOutCrossedAt(i) =>
                IF LiquidityAfterCrossings(i) <= 0
                THEN last.err \in NoLiquidityErrors
                ELSE ~last.calc.trace[i].panicked


\* C19: every iteration of CalcOutAmtGivenIn hands a strictly positive
\* working liquidity to ComputeSwapStep, also after a crossing into a gap
\* between two positions.
C19_StepLiquidityPositive ==
    last.op \in ExactInOps =>
        \A i \in 1..Len(last.calc.trace) : last.calc.trace[i].before.liquidity > 0

\* The calculation entry points, which only read the store.
CalcOps == {"CalcOutAmtGivenIn", "CalcInAmtGivenOut"}

\* C20: CalcOutAmtGivenIn and CalcInAmtGivenOut leave the stored pool and
\* every stored tick's net-liquidity delta as they found them, whether they
\* succeed or fail.
C20_CalcLeavesStoreUnchanged ==
    [][last'.op \in CalcOps => (pool' = pool /\ ticks' = ticks)]_vars

\* A calculation has crossed a tick and returned a working state that differs
\* from the stored pool, which is still the pool it started from.
C20_CalcMovedOnlyItsSwapState ==
    /\ last.op \in CalcOps
    /\ last.err = NoErr
    /\ pool = last.prePool
    /\ last.calc.values[1].updatedTick # pool.tick
    /\ \E i \in 1..Len(last.calc.trace) : last.calc.trace[i].crossed

\* C21: after a successful SwapOutAmtGivenIn the stored pool's tick, liquidity
\* and sqrt price are the updatedTick, updatedLiquidity and updatedSqrtPrice
\* CalcOutAmtGivenIn returns for the same arguments on the pool before the
\* swap, and the coin returned is CalcOutAmtGivenIn's tokenOut.
C21_SwapStoresWhatCalcReturns ==
    (last.op = "SwapOutAmtGivenIn" /\ last.err = NoErr) =>
        \E c \in {LastCalcOutWith(last.args.tokenIn.amount)} :
            /\ c.err = NoErr
            /\ pool.tick = c.values[1].updatedTick
            /\ pool.liquidity = c.values[1].updatedLiquidity
            /\ pool.sqrtPrice = c.values[1].updatedSqrtPrice
            /\ last.out = <<c.values[1].tokenOut>>

\* A successful SwapOutAmtGivenIn has crossed a tick and stored a tick, a
\* liquidity and a sqrt price that all differ from the ones it found.
C21_SwapStoredNewTickLiquidityAndPrice ==
    /\ last.op = "SwapOutAmtGivenIn"
    /\ last.err = NoErr
    /\ pool.tick # last.prePool.tick
    /\ pool.liquidity # last.prePool.liquidity
    /\ pool.sqrtPrice # last.prePool.sqrtPrice
    /\ last.out[1] > 0

\* The pairs of positions <<a, b>> on consecutive price ranges, b starting at
\* the tick just above a's upper tick.
ConsecutiveRanges ==
    {ab \in positions \X positions : ab[2].lower = ab[1].upper + 1}

\* The last call was a successful asset1-in calculation that started inside
\* range a, on a pool whose liquidity was that of its positions, and ended
\* above a's upper tick.
LeftRangeUpwards(a) ==
    /\ last.op \in ExactInOps
    /\ last.calc.err = NoErr
    /\ last.args.tokenIn.denom = Asset1
    /\ last.args.tokenOutDenom = Asset0
    /\ a.lower <= last.prePool.tick /\ last.prePool.tick < a.upper
    /\ last.prePool.liquidity = LiquidityAt(positions, last.prePool.tick)
    /\ last.calc.values[1].updatedSqrtPrice > TickToSqrtPrice(a.upper)

\* The ticks the last call crossed, in the order it crossed them.
CrossedTicks ==
    SelectSeq([i \in 1..Len(last.calc.trace) |->
                  IF last.calc.trace[i].crossed
                  THEN last.calc.trace[i].nextTick ELSE MinTick - 1],
              LAMBDA t : t >= MinTick)

\* The last call ended in range b with b's liquidity.
EndedInRange(b) ==
    /\ last.calc.values[1].updatedLiquidity = b.liquidity
    /\ b.lower <= last.calc.values[1].updatedTick
    /\ last.calc.values[1].updatedTick < b.upper

AscendingDenoms == <<"axel", "eth", "osmo", "usd", "usdc">>
DenomRank(d) == CHOOSE i \in 1..Len(AscendingDenoms) : AscendingDenoms[i] = d

\* C24: OrderInitialPoolDenoms returns the two denominations in ascending
\* lexicographic order whatever order they are passed in, and fails when the
\* two are equal.
C24_DenomsReturnedAscending ==
    last.op = "OrderInitialPoolDenoms" =>
        IF last.args.denom0 = last.args.denom1
        THEN last.err # NoErr /\ last.out = Nothing
        ELSE /\ last.err = NoErr
             /\ {last.out[1], last.out[2]} = {last.args.denom0, last.args.denom1}
             /\ DenomRank(last.out[1]) < DenomRank(last.out[2])
             /\ last.out = OrderInitialPoolDenoms(last.args.denom1,
                                                  last.args.denom0).denoms

\* The call of the test: "usdc" and "eth" came back as "eth", "usdc", the
\* order the pool's two assets are in.
C24_UsdcEthReordered ==
    /\ last.op = "OrderInitialPoolDenoms"
    /\ last.args.denom0 = "usdc" /\ last.args.denom1 = "eth"
    /\ last.out = <<Asset0, Asset1>>

Between(x, a, b) == (a <= x /\ x <= b) \/ (b <= x /\ x <= a)

\* C26: in every state reached inside the CalcOutAmtGivenIn loop the working
\* sqrt price lies between the pool's starting sqrt price and the sqrt price
\* limit, and no iteration moves it against the swap direction.
C26_WorkingPriceBetweenStartAndLimit ==
    last.op \in ExactInOps =>
        \A i \in 1..Len(last.calc.trace) :
            /\ Between(last.calc.trace[i].after.sqrtPrice,
                       last.prePool.sqrtPrice, LastSqrtLimit)
            /\ Between(last.calc.trace[i].after.sqrtPrice,
                       last.calc.trace[i].before.sqrtPrice, LastSqrtLimit)

\* An exact-in call has been stopped by its price limit inside a segment: the
\* last step's target was the limit, not the next tick, and input was left.
C26_StoppedAtLimitInsideSegment ==
    /\ last.op \in ExactInOps
    /\ last.calc.err = NoErr
    /\ last.calc.trace # <<>>
    /\ \E it \in {last.calc.trace[Len(last.calc.trace)]} :
        /\ it.after.sqrtPrice = LastSqrtLimit
        /\ it.after.sqrtPrice # it.nextSqrtPrice
        /\ it.after.sqrtPrice # last.prePool.sqrtPrice
        /\ it.after.amountSpecifiedRemaining > Epsilon

\* C27: whenever CalcOutAmtGivenIn returns without error, either the
\* remaining specified amount is at most the epsilon or the final sqrt price
\* is the sqrt price limit.
C27_SuccessMeansFilledOrAtLimit ==
    (IsExactIn /\ last.calc.err = NoErr /\ last.calc.values # Nothing) =>
        \/ LastFinalState.amountSpecifiedRemaining <= Epsilon
        \/ Returned.updatedSqrtPrice = LastSqrtLimit

\* A successful call has gone through at least one step and ended short of
\* its limit with an unfilled remainder inside the epsilon.
C27_EndedWithDustShortOfLimit ==
    /\ IsExactIn /\ last.calc.err = NoErr
    /\ last.calc.trace # <<>>
    /\ LastFinalState.amountSpecifiedRemaining > 0
    /\ LastFinalState.amountSpecifiedRemaining <= Epsilon
    /\ Returned.updatedSqrtPrice # LastSqrtLimit

\* The sums of the amountIn and of the amountOut of the first i steps of the
\* last call.
RECURSIVE SumAmountIn(_)
SumAmountIn(i) ==
    IF i = 0 THEN 0 ELSE SumAmountIn(i - 1) + last.calc.trace[i].amountIn
RECURSIVE SumAmountOut(_)
SumAmountOut(i) ==
    IF i = 0 THEN 0 ELSE SumAmountOut(i - 1) + last.calc.trace[i].amountOut

\* C28: at every iteration boundary of the CalcOutAmtGivenIn loop the
\* remaining amount plus the input consumed by the steps so far is
\* amountIn * (1 - fee), the calculated amount is the output of the steps so
\* far, and the remaining amount is not negative.
C28_LoopConservesAmounts ==
    IsExactIn =>
        \A i \in 1..Len(last.calc.trace) :
            /\ last.calc.trace[i].after.amountSpecifiedRemaining + SumAmountIn(i)
                    = AmountAfterFee(last.args.tokenIn.amount, last.args.swapFee)
            /\ last.calc.trace[i].after.amountCalculated = SumAmountOut(i)
            /\ last.calc.trace[i].after.amountSpecifiedRemaining >= 0

\* Iteration it of an exact-in loop updated the working tick and liquidity by
\* the rule of its case: the tick was reached, the price moved, or neither.
TickRuleFollowed(it, zeroForOne) ==
    IF it.after.sqrtPrice = it.nextSqrtPrice
    THEN /\ it.after.tick = (IF zeroForOne THEN it.nextTick - 1 ELSE it.nextTick)
         /\ it.after.liquidity
                = it.before.liquidity + (IF zeroForOne THEN -ticks[it.nextTick]
                                         ELSE ticks[it.nextTick])
    ELSE IF it.after.sqrtPrice # it.before.sqrtPrice
    THEN /\ it.after.tick = PriceToTick(DecSquare(it.after.sqrtPrice))
         /\ it.after.liquidity = it.before.liquidity
    ELSE /\ it.after.tick = it.before.tick
         /\ it.after.liquidity = it.before.liquidity

\* C29: every CalcOutAmtGivenIn iteration updates the working tick by one of
\* three rules: the step reached the next tick's sqrt price (liquidity
\* updated, tick nextTick-1 when swapping asset0 for asset1 and nextTick
\* otherwise); else the price moved (tick recomputed from the price, liquidity
\* unchanged); else neither tick nor liquidity changes.
C29_TickUpdatedByOneOfThreeRules ==
    IsExactIn =>
        \A i \in 1..Len(last.calc.trace) :
            TickRuleFollowed(last.calc.trace[i], LastZeroForOne)

\* An asset0-for-asset1 call has crossed a tick with a liquidity delta and
\* then ended inside the next segment, on a tick recomputed from the price.
C29_CrossedDownThenPartialFill ==
    /\ IsExactIn /\ LastZeroForOne /\ last.calc.err = NoErr
    /\ \E i \in 1..Len(last.calc.trace), j \in 1..Len(last.calc.trace) :
        /\ i < j
        /\ last.calc.trace[i].crossed
        /\ last.calc.trace[i].after.liquidity # last.calc.trace[i].before.liquidity
        /\ last.calc.trace[i].after.liquidity > 0
        /\ ~last.calc.trace[j].crossed
        /\ last.calc.trace[j].after.sqrtPrice # last.calc.trace[j].before.sqrtPrice
        /\ last.calc.trace[j].after.tick # last.calc.trace[j].before.tick

\* C30: CalcInAmtGivenOut follows the loop structure of exact-in: each step
\* starts from the sqrt price the previous step ended at, a tick is crossed
\* exactly when the step's resulting sqrt price is that tick's sqrt price, and
\* the sqrt price returned is the one the last step reached.
C30_ExactOutLoopAdvancesPrice ==
    (last.op \in ExactOutOps /\ last.calc.trace # <<>>) =>
        /\ \A i \in 2..Len(last.calc.trace) :
              last.calc.trace[i].before.sqrtPrice = last.calc.trace[i - 1].sqrtPrice
        /\ \A i \in 1..Len(last.calc.trace) :
              last.calc.trace[i].crossed
                  <=> (last.calc.trace[i].sqrtPrice = last.calc.trace[i].nextSqrtPrice)
        /\ last.calc.err = NoErr =>
              last.calc.values[1].updatedSqrtPrice
                  = last.calc.trace[Len(last.calc.trace)].sqrtPrice

\* C31: every ComputeSwapStep call CalcInAmtGivenOut makes is given the
\* working liquidity read from the pool and its ticks: the pool's liquidity
\* adjusted by the deltas of the ticks crossed so far.
C31_ExactOutStepsUsePoolLiquidity ==
    last.op \in ExactOutOps =>
        \A i \in 1..Len(last.calc.trace) :
            last.calc.trace[i].liquidity = LiquidityAfterCrossings(i - 1)

\* C32: the input coin a successful SwapExactAmountIn moves from the trader
\* to the pool and reports in the swap event is the realized input the
\* calculation returned, and the output coin moved and reported is the
\* realized output.
C32_SettlesRealizedAmounts ==
    (last.op = "SwapExactAmountIn" /\ last.err = NoErr) =>
        /\ last.event[1].tokenIn.amount = Returned.tokenIn
        /\ last.preBank["trader"][last.args.tokenIn.denom]
                - bank["trader"][last.args.tokenIn.denom] = Returned.tokenIn
        /\ last.event[1].tokenOut.amount = Returned.tokenOut
        /\ bank["trader"][last.args.tokenOutDenom]
                - last.preBank["trader"][last.args.tokenOutDenom] = Returned.tokenOut

\* C33: the fee of an exact-out swap is applied once to the total: the amount
\* CalcInAmtGivenOut returns is the sum of the steps' computed counter-amounts
\* divided by (1 - fee) and rounded, the rounded sum itself when the fee is 0.
C33_FeeAppliedOnceToTotal ==
    (last.op \in ExactOutOps /\ last.calc.err = NoErr) =>
        last.calc.values[1].tokenIn
            = RoundInt(DecQuo(SumAmountOut(Len(last.calc.trace)),
                              Precision - last.args.swapFee))

\* Iteration it of an exact-in loop made progress: it crossed a tick and moved
\* the working tick strictly in the swap direction, or brought the price to
\* the limit, or left at most the epsilon of the amount.
IterationProgressed(it, zeroForOne, sqrtPriceLimit) ==
    \/ /\ it.crossed
       /\ IF zeroForOne THEN it.after.tick < it.before.tick
          ELSE it.after.tick > it.before.tick
    \/ it.after.sqrtPrice = sqrtPriceLimit
    \/ it.after.amountSpecifiedRemaining <= Epsilon

\* C34: CalcOutAmtGivenIn terminates: the call returns a result or an error,
\* every loop iteration crosses a tick advancing the working tick in the swap
\* direction, brings the price to the limit or leaves at most the epsilon, and
\* no iteration leaves the remaining amount, the price and the tick unchanged.
C34_EveryIterationProgresses ==
    IsExactIn =>
        /\ last.calc.err \notin {NoReturn, IterationCap}
        /\ \A i \in 1..Len(last.calc.trace) :
            /\ IterationProgressed(last.calc.trace[i], LastZeroForOne, LastSqrtLimit)
            /\ \/ last.calc.trace[i].after.amountSpecifiedRemaining
                      # last.calc.trace[i].before.amountSpecifiedRemaining
               \/ last.calc.trace[i].after.sqrtPrice
                      # last.calc.trace[i].before.sqrtPrice
               \/ last.calc.trace[i].after.tick # last.calc.trace[i].before.tick

\* x lies strictly between a and b, whichever of the two is the larger.
StrictlyBetween(x, a, b) == (a < x /\ x < b) \/ (b < x /\ x < a)

\* C35: within one CalcOutAmtGivenIn call the ticks crossed follow one
\* another strictly in the swap direction, so none is crossed twice, and none
\* is skipped: every initialized tick whose sqrt price lies strictly between
\* the starting and the final working sqrt price has been crossed.
C35_TicksCrossedInOrderNoneSkipped ==
    (IsExactIn /\ last.calc.trace # <<>>) =>
        /\ \A i \in 1..Len(CrossedTicks), j \in 1..Len(CrossedTicks) :
              i < j => IF LastZeroForOne THEN CrossedTicks[j] < CrossedTicks[i]
                       ELSE CrossedTicks[j] > CrossedTicks[i]
        /\ \A t \in MinTick..MaxTick :
              ( /\ Initialized(ticks, t)
                /\ StrictlyBetween(TickToSqrtPrice(t), last.prePool.sqrtPrice,
                       last.calc.trace[Len(last.calc.trace)].after.sqrtPrice) )
                  => \E i \in 1..Len(CrossedTicks) : CrossedTicks[i] = t

\* C36: SwapExactAmountIn, which takes no price limit from its caller, never
\* fails with the invalid-price-limit error: the limit it chooses passes the
\* validation of CalcOutAmtGivenIn whatever the pool's price.
C36_ChosenLimitAlwaysValid ==
    ( /\ last.op = "SwapExactAmountIn"
      /\ MinSqrtRatio <= last.prePool.sqrtPrice
      /\ last.prePool.sqrtPrice <= MaxSqrtRatio )
        => last.err # ErrPriceLimit

\* C37: SwapInAmtGivenOut enforces its caller's price band: whenever the
\* pool's price is not strictly inside [minPrice, maxPrice] the call fails
\* and leaves the stored pool as it was.
C37_SwapEnforcesCallersBand ==
    ( /\ last.op = "SwapInAmtGivenOut"
      /\ (last.args.minPrice >= LastPrice \/ last.args.maxPrice <= LastPrice) )
        => (last.err # NoErr /\ pool = last.prePool)

\* Hop h of an end block went through: its pool was found and its swap
\* was made and returned no error.
HopSucceeded(h) == h.poolErr = NoErr /\ h.swapped /\ h.swapErr = NoErr

====
